---- MODULE Spec2Model ----
(***************************************************************************)
(* A model of the 2D drawing library src/2d.js (frame scheduler, surface   *)
(* state, input bridge, rotation) and of its consumer src/index.js.        *)
(*                                                                         *)
(* Time.  performance.now() and the requestAnimationFrame timestamps are   *)
(* JavaScript numbers in milliseconds.  The model counts time in thirds of *)
(* a millisecond, so that the default frame interval 1000 / 60 ms is the   *)
(* whole number 50; Ms(n) is n milliseconds in that unit.  Every frame     *)
(* rate of the model divides Ms(1000), so 1000 / fps is exact.             *)
(***************************************************************************)
EXTENDS Integers, Sequences, FiniteSets, TLC

VARIABLES
  \* the surface state singleton __2djs (2d.js:7-30)
  frameRate, frameInterval, running, rotation, angleMode, mouseMoved,
  \* library globals (2d.js:566, 593, 670, 687, 710)
  frameCount, deltaTime, mouseX, mouseY, mouseIsPressed,
  \* the closure of createCanvas (2d.js:1214-1215) and the host's callback queue
  created, oldTime, elapsed, pending,
  \* the host: its clock, and the hook functions the application defines
  now, hooks,
  \* history: the last library handler that ran, with what it did, in order;
  \* the timestamp of the last callback that invoked the draw hook; the number of
  \* executed ticks that ran to their end
  last, drawAt, ticks,
  \* the 2D context of the surface (__2djs.ctx: its drawing state and its stack of
  \* saved drawing states), __2djs.textSize and __2djs.fontName, the globals width
  \* and height (2d.js:607, 621)
  ctx, textSize, fontName, width, height,
  \* the images made by loadImage, the Font handles made by loadFont, the host's
  \* document.fonts and the reactions waiting on each handle's promise
  images, fonts, docFonts, waiting,
  \* the loop of a running grid() call, a DrawImage object
  gridRun, dimg,
  \* history: what the last drawing call put on the surface, each with the transform
  \* in force
  painted,
  \* history: the baseline the closure of createCanvas started with, and the number
  \* of executed ticks (callbacks that went past the throttle)
  baseline0, executed,
  \* the globals of the game (index.js:2-27); of the two Audio objects, whether the
  \* background music is playing
  started, raindrops, playerScore, bucketX, bucketY, musicPlaying,
  \* history of the game: the drops removed for reaching the bucket and for passing
  \* the lower edge, the times the drop sound was played, and the frames and
  \* the firings of the spawn timer that were followed
  caught, missed, sounds, frames, firings

vars == <<frameRate, frameInterval, running, rotation, angleMode, mouseMoved,
          frameCount, deltaTime, mouseX, mouseY, mouseIsPressed,
          created, oldTime, elapsed, pending, now, hooks, last, drawAt, ticks,
          ctx, textSize, fontName, width, height, images, fonts, docFonts, waiting,
          gridRun, dimg, painted, baseline0, executed,
          started, raindrops, playerScore, bucketX, bucketY, musicPlaying,
          caught, missed, sounds, frames, firings>>

\* what the frame scheduler, the input listeners and the rotation calls leave alone
surfaceVars == <<ctx, textSize, fontName, width, height>>
assetVars == <<images, fonts, docFonts, waiting>>
drawVars == <<surfaceVars, assetVars, gridRun, dimg, painted>>
tickVars == <<baseline0, executed>>
gameVars == <<started, raindrops, playerScore, bucketX, bucketY, musicPlaying,
              caught, missed, sounds, frames, firings>>

---------------------------------------------------------------------------
\* Bounds of the model

\* the host clock stops here (thirds of a millisecond)
MaxTime == 200
\* the largest stored rotation the rotation actions may start from
MaxRotation == 720

\* performance.now() when createCanvas runs
StartTimes == {0, 10}
\* time between two host callbacks: a fast host (5 ms), a 60 Hz host, a slow one
Deltas == {15, 50, 65}
\* time an executed tick may take (deltaTime)
Durations == {4}
\* frame rates the application asks for
Rates == {60, 120}
\* pointer positions relative to the surface
Points == {<<3, 4>>, <<8, 2>>}
\* the hooks an application may define
HookNames == {"draw", "mouseMoved"}
\* what a hook's body may do: return, call stopDraw() and return, or throw
HookCalls == {"none", "stopDraw", "throw"}
\* the images and the fonts an application loads
ImageIds == {1, 2}
FontIds == {"OpenSans", "Mono"}
\* the size of the surface
CanvasSizes == {<<6, 4>>}
\* arguments of rotate and rotateAdd
Angles == {0, 3, 20, 90, 350, 360}
\* coordinates and (even) sizes passed to the drawing primitives
Coords == {0, 2}
Sizes == {2, 4}
\* colours, as Color.toString() writes them
Colors == {"rgba(255, 0, 0, 255)"}
\* DrawImage: sizes (even), the pixels set, their colours, scale factors, and the
\* longest side a scaled image may have
DImgSizes == {<<2, 2>>, <<4, 2>>}
DImgPoints == {<<0, 0>>, <<1, 0>>, <<1, 1>>}
DImgColors == {<<100, 40, 0, 255>>, <<3, 50, 10, 100>>}
Scales == {1, 2}
MaxSide == 4
\* text sizes and family names passed to textSize and font, and the number of
\* font(handle) calls that may wait for one handle
TextSizes == {32}
FontNames == {"Courier"}
MaxWaiting == 2
\* cell sizes passed to grid, and the number of segments after which a run of grid
\* is followed no further
CellSizes == {-1, 0, 2, 3}
MaxSegs == 12
\* the largest coordinate and size passed to rectCollision
MaxCoord == 2
\* the game: the frames and the firings of the spawn timer that are followed
MaxFrames == 2
MaxFirings == 2
\* the game: what random(0, width - raindropWidth) returns, pointer positions, the
\* time between two callbacks of the host (33 ms)
SpawnXs == {0, 499}
GamePoints == {<<0, 550>>, <<560, 550>>}
GameDeltas == {100}

---------------------------------------------------------------------------
\* Numbers

Ms(n) == 3 * n

\* a % b of JavaScript for the non-negative operands of the model
JsMod(a, b) == a % b

\* A number of the form r + p * (PI / 180), with r and p whole: the values the
\* angle constants and __2djs.angleMode take.  <<1, 0>> is 1, <<0, 1>> is PI / 180.
Num(r) == <<r, 0>>
PiOver180(p) == <<0, p>>

DEGREES == 1
RADIANS == 2
TWO_PI == PiOver180(360)

\* r >= TWO_PI for a whole number r (2 * PI = 6.28...)
GeTwoPi(r) == r >= 7

---------------------------------------------------------------------------
\* The state after the scripts have loaded

FrameIntervalOf(fps) == Ms(1000) \div fps

\* what a handler did: its name, its arguments, the hooks it invoked and the steps it
\* took (in order), and what it returned
Did(op, arg, log, ret) == [op |-> op, arg |-> arg, log |-> log, ret |-> ret]

NoHandler == Did("load", <<>>, <<>>, <<>>)

\* The drawing state of a 2D context: the part save() pushes and restore() pops.
\* The transform is the list of the transform calls applied to the identity.  A new
\* context has the defaults of the canvas API.
DefaultDrawingState ==
  [transform |-> <<>>, fillStyle |-> "#000000", strokeStyle |-> "#000000",
   lineWidth |-> <<1>>, font |-> <<10, "sans-serif">>, textAlign |-> "start",
   smoothing |-> TRUE]

NewContext == [st |-> DefaultDrawingState, stack |-> <<>>]

\* __2djs.ctx is null until createCanvas; no drawing call of the model runs before
NoContext == NewContext

NoGrid == [pc |-> "idle", sizeX |-> 0, sizeY |-> 0, x |-> 0, y |-> 0, segs |-> <<>>]

NoDrawImage == [width |-> 0, height |-> 0, data |-> <<>>, cw |-> 0, ch |-> 0]

\* hs: the hooks the sketch defines; l: the record of the handler run last
InitState(hs, l) ==
  /\ frameRate = 60
  /\ frameInterval = FrameIntervalOf(60)
  /\ running = TRUE
  /\ rotation = 0
  /\ angleMode = Num(1)
  /\ mouseMoved = FALSE
  /\ frameCount = 1
  /\ deltaTime = 0
  /\ mouseX = 0
  /\ mouseY = 0
  /\ mouseIsPressed = FALSE
  /\ created = FALSE
  /\ oldTime = 0
  /\ elapsed = 0
  /\ pending = 0
  /\ now = 0
  /\ hooks = hs
  /\ last = l
  /\ drawAt = -1
  /\ ticks = 0
  /\ ctx = NoContext
  /\ textSize = 20
  /\ fontName = "Arial"
  /\ width = 0
  /\ height = 0
  /\ images = [i \in ImageIds |-> "none"]
  /\ fonts = [f \in FontIds |-> "none"]
  /\ docFonts = <<>>
  /\ waiting = [f \in FontIds |-> 0]
  /\ gridRun = NoGrid
  /\ dimg = NoDrawImage
  /\ painted = <<>>
  /\ baseline0 = 0
  /\ executed = 0
  /\ started = FALSE
  /\ raindrops = <<>>
  /\ playerScore = 0
  /\ bucketX = 0
  /\ bucketY = 0
  /\ musicPlaying = FALSE
  /\ caught = 0
  /\ missed = 0
  /\ sounds = 0
  /\ frames = 0
  /\ firings = 0

Init == \E hs \in SUBSET HookNames : InitState(hs, NoHandler)

---------------------------------------------------------------------------
\* Library calls on the part of the surface state a hook may change

Lib == [running |-> running, frameRate |-> frameRate, frameInterval |-> frameInterval]

StopDrawOn(s) == [s EXCEPT !.running = FALSE]

FrameRateOn_staleInterval(s, fps) == [s EXCEPT !.frameRate = fps]

FrameRateOn(s, fps) ==
  IF fps = s.frameRate
    THEN s
    ELSE [s EXCEPT !.frameRate = fps, !.frameInterval = FrameIntervalOf(fps)]

\* the effect of a user hook's body on the surface state
HookBody(call, s) == IF call = "stopDraw" THEN StopDrawOn(s) ELSE s

---------------------------------------------------------------------------
\* createCanvas(w, h): the surface, the listeners, the first animation request

\* background(color): fills the surface and puts the fill style back
\* requestAnimationFrame(animate): one more callback is pending
Scheduled_not(p) == p

Scheduled(p) == p + 1

BackgroundOn(c, color) ==
  LET prevStyle == c.st.fillStyle
      filled == [c EXCEPT !.st.fillStyle = color]
  IN [filled EXCEPT !.st.fillStyle = prevStyle]

CreateCanvas ==
  /\ ~created
  /\ created' = TRUE
  /\ \E t \in StartTimes :
       /\ now' = t
       /\ oldTime' = t
       /\ baseline0' = t
  /\ elapsed' = 0
  /\ pending' = Scheduled(pending)
  /\ \E size \in CanvasSizes :
       /\ width' = size[1]
       /\ height' = size[2]
  /\ ctx' = BackgroundOn(NewContext, "rgba(0, 0, 0, 255)")
  /\ last' = Did("createCanvas", <<>>, <<"requestAnimationFrame">>, <<>>)
  /\ UNCHANGED <<frameRate, frameInterval, running, rotation, angleMode, mouseMoved,
                 frameCount, deltaTime, mouseX, mouseY, mouseIsPressed, hooks,
                 drawAt, ticks>>
  /\ UNCHANGED <<textSize, fontName, assetVars, gridRun, dimg, painted>>
  /\ UNCHANGED <<gameVars, executed>>

---------------------------------------------------------------------------
\* animate(timestamp): one host animation callback

Terminated_never(r) == FALSE

Terminated(r) == ~r

ShouldExecute_always(e, interval) == TRUE

ShouldExecute_halfInterval(e, interval) == 2 * e > interval

ShouldExecute(e, interval) == e > interval

NewBaseline_reset(timestamp, e, interval) == timestamp

NewBaseline(timestamp, e, interval) == timestamp - JsMod(e, interval)

\* draw?.() with no binding named draw raises a ReferenceError: the optional call
\* guards against an undefined value, not against an unresolvable name
DrawResolves(hs) == "draw" \in hs

DispatchesMove(flag, hs) == flag /\ "mouseMoved" \in hs

FrameCountAfter_skipped(fc) == fc

FrameCountAfter(fc) == fc + 1

Animate ==
  /\ pending > 0
  /\ \E d \in Deltas, spent \in Durations, c1 \in HookCalls, c2 \in HookCalls :
       LET timestamp == now + d
           e == timestamp - oldTime
           moves == DispatchesMove(mouseMoved, hooks)
           drawThrows == c1 = "throw"
           moveThrows == ~drawThrows /\ moves /\ c2 = "throw"
           afterDraw == HookBody(c1, Lib)
           afterMove == IF ~drawThrows /\ moves THEN HookBody(c2, afterDraw)
                                                ELSE afterDraw
           completes == ~drawThrows /\ ~moveThrows
       IN
       /\ timestamp <= MaxTime
       /\ now' = timestamp
       /\ IF Terminated(running)
            THEN /\ pending' = pending - 1
                 /\ last' = Did("animate", <<timestamp>>, <<>>, <<>>)
                 /\ UNCHANGED <<running, frameRate, frameInterval, oldTime, elapsed,
                                frameCount, deltaTime, drawAt, ticks, executed>>
            ELSE /\ pending' = Scheduled(pending - 1)
                 /\ elapsed' = e
                 /\ IF ~ShouldExecute(e, frameInterval)
                      THEN /\ last' = Did("animate", <<timestamp>>, <<"requestAnimationFrame">>, <<>>)
                           /\ UNCHANGED <<running, frameRate, frameInterval, oldTime,
                                          frameCount, deltaTime, drawAt, ticks, executed>>
                      ELSE /\ oldTime' = NewBaseline(timestamp, e, frameInterval)
                           /\ executed' = executed + 1
                           /\ IF ~DrawResolves(hooks)
                                THEN /\ last' = Did("animate", <<timestamp>>,
                                                     <<"requestAnimationFrame",
                                                       "ReferenceError">>, <<>>)
                                     /\ UNCHANGED <<running, frameRate, frameInterval,
                                                    frameCount, deltaTime, drawAt, ticks>>
                                ELSE /\ drawAt' = timestamp
                                     /\ running' = afterMove.running
                                     /\ frameRate' = afterMove.frameRate
                                     /\ frameInterval' = afterMove.frameInterval
                                     /\ frameCount' = IF completes
                                                        THEN FrameCountAfter(frameCount)
                                                        ELSE frameCount
                                     /\ deltaTime' = IF completes THEN spent ELSE deltaTime
                                     /\ ticks' = IF completes THEN ticks + 1 ELSE ticks
                                     /\ last' = Did("animate", <<timestamp>>,
                                                     <<"requestAnimationFrame", "draw">>
                                                       \o (IF ~drawThrows /\ moves
                                                              THEN <<"mouseMoved">>
                                                              ELSE <<>>)
                                                       \o (IF completes
                                                              THEN <<"frameCount++", "deltaTime">>
                                                              ELSE <<"Error">>),
                                                     <<>>)
  /\ UNCHANGED <<rotation, angleMode, mouseMoved, mouseX, mouseY, mouseIsPressed,
                 created, hooks>>
  /\ UNCHANGED drawVars
  /\ UNCHANGED <<gameVars, baseline0>>

---------------------------------------------------------------------------
\* The mousemove listener of the surface

MouseMove_sync ==
  /\ created
  /\ \E p \in Points :
       /\ mouseX' = p[1]
       /\ mouseY' = p[2]
  /\ mouseMoved' = TRUE
  /\ last' = Did("mousemove", <<mouseX', mouseY'>>,
                  IF "mouseMoved" \in hooks THEN <<"mouseMoved">> ELSE <<>>, <<>>)
  /\ UNCHANGED <<frameRate, frameInterval, running, rotation, angleMode,
                 frameCount, deltaTime, mouseIsPressed,
                 created, oldTime, elapsed, pending, now, hooks, drawAt, ticks>>
  /\ UNCHANGED drawVars
  /\ UNCHANGED <<gameVars, tickVars>>

MouseMove ==
  /\ created
  /\ \E p \in Points :
       /\ mouseX' = p[1]
       /\ mouseY' = p[2]
  /\ mouseMoved' = TRUE
  /\ last' = Did("mousemove", <<mouseX', mouseY'>>, <<>>, <<>>)
  /\ UNCHANGED <<frameRate, frameInterval, running, rotation, angleMode,
                 frameCount, deltaTime, mouseIsPressed,
                 created, oldTime, elapsed, pending, now, hooks, drawAt, ticks>>
  /\ UNCHANGED drawVars
  /\ UNCHANGED <<gameVars, tickVars>>

---------------------------------------------------------------------------
\* frameRate(fps), frameRate() and stopDraw(), called outside the hooks

FrameRate ==
  /\ \E fps \in Rates :
       LET s == FrameRateOn(Lib, fps) IN
       /\ frameRate' = s.frameRate
       /\ frameInterval' = s.frameInterval
       /\ last' = Did("frameRate", <<fps>>, <<>>, <<>>)
  /\ UNCHANGED <<running, rotation, angleMode, mouseMoved,
                 frameCount, deltaTime, mouseX, mouseY, mouseIsPressed,
                 created, oldTime, elapsed, pending, now, hooks, drawAt, ticks>>
  /\ UNCHANGED drawVars
  /\ UNCHANGED <<gameVars, tickVars>>

FrameRateGet ==
  /\ last' = Did("frameRate", <<>>, <<>>, <<frameRate>>)
  /\ UNCHANGED <<frameRate, frameInterval, running, rotation, angleMode, mouseMoved,
                 frameCount, deltaTime, mouseX, mouseY, mouseIsPressed,
                 created, oldTime, elapsed, pending, now, hooks, drawAt, ticks>>
  /\ UNCHANGED drawVars
  /\ UNCHANGED <<gameVars, tickVars>>

StopDraw ==
  /\ running' = StopDrawOn(Lib).running
  /\ last' = Did("stopDraw", <<>>, <<>>, <<>>)
  /\ UNCHANGED <<frameRate, frameInterval, rotation, angleMode, mouseMoved,
                 frameCount, deltaTime, mouseX, mouseY, mouseIsPressed,
                 created, oldTime, elapsed, pending, now, hooks, drawAt, ticks>>
  /\ UNCHANGED drawVars
  /\ UNCHANGED <<gameVars, tickVars>>

---------------------------------------------------------------------------
\* angleMode(mode), rotate(degrees), rotate() and rotateAdd(degrees)

Modes == {DEGREES, RADIANS}

AngleModeOf(mode, current) ==
  IF mode = DEGREES THEN PiOver180(1)
  ELSE IF mode = RADIANS THEN Num(1)
  ELSE current

AngleMode ==
  /\ \E mode \in Modes :
       /\ angleMode' = AngleModeOf(mode, angleMode)
       /\ last' = Did("angleMode", <<mode>>, <<>>, <<>>)
  /\ UNCHANGED <<frameRate, frameInterval, running, rotation, mouseMoved,
                 frameCount, deltaTime, mouseX, mouseY, mouseIsPressed,
                 created, oldTime, elapsed, pending, now, hooks, drawAt, ticks>>
  /\ UNCHANGED <<surfaceVars, assetVars, gridRun, dimg>>
  /\ painted' = <<>>
  /\ UNCHANGED <<gameVars, tickVars>>

Rotate ==
  /\ \E degrees \in Angles :
       /\ rotation' = degrees
       /\ last' = Did("rotate", <<degrees>>, <<>>, <<>>)
  /\ UNCHANGED <<frameRate, frameInterval, running, angleMode, mouseMoved,
                 frameCount, deltaTime, mouseX, mouseY, mouseIsPressed,
                 created, oldTime, elapsed, pending, now, hooks, drawAt, ticks>>
  /\ UNCHANGED <<surfaceVars, assetVars, gridRun, dimg>>
  /\ painted' = <<>>
  /\ UNCHANGED <<gameVars, tickVars>>

RotateGet ==
  /\ last' = Did("rotate", <<>>, <<>>, <<rotation>>)
  /\ UNCHANGED <<frameRate, frameInterval, running, rotation, angleMode, mouseMoved,
                 frameCount, deltaTime, mouseX, mouseY, mouseIsPressed,
                 created, oldTime, elapsed, pending, now, hooks, drawAt, ticks>>
  /\ UNCHANGED drawVars
  /\ UNCHANGED <<gameVars, tickVars>>

\* the condition under which rotateAdd resets the stored rotation: the stored
\* multiplier is compared with the mode constants
Wraps(mode, rot) ==
  \/ (mode = Num(DEGREES) /\ rot >= 360)
  \/ (mode = Num(RADIANS) /\ GeTwoPi(rot))

RotateAddOf(mode, rot, degrees) == (IF Wraps(mode, rot) THEN 0 ELSE rot) + degrees

RotateAdd ==
  /\ rotation <= MaxRotation
  /\ \E degrees \in Angles :
       /\ rotation' = RotateAddOf(angleMode, rotation, degrees)
       /\ last' = Did("rotateAdd", <<rotation, degrees>>, <<>>, <<>>)
  /\ UNCHANGED <<frameRate, frameInterval, running, angleMode, mouseMoved,
                 frameCount, deltaTime, mouseX, mouseY, mouseIsPressed,
                 created, oldTime, elapsed, pending, now, hooks, drawAt, ticks>>
  /\ UNCHANGED drawVars
  /\ UNCHANGED <<gameVars, tickVars>>

NextRotate ==
  \/ AngleMode
  \/ Rotate
  \/ RotateGet
  \/ RotateAdd

SpecRotate == Init /\ [][NextRotate]_vars

---------------------------------------------------------------------------
\* The 2D context: the calls the library makes on it and what they do

\* one call on the context, with its numeric arguments
Op(f, arg) == [f |-> f, arg |-> arg]

\* n * m for a whole number n and a number m of the form r + p * (PI / 180)
Times(n, m) == <<n * m[1], n * m[2]>>

\* the calls that put something on the surface at once, and those that paint the
\* current path
DirectDraws == {"fillRect", "fillText", "drawImage"}
PathDraws == {"fill", "stroke"}
PathCalls == {"moveTo", "lineTo", "rect", "arc", "ellipse", "bezierCurveTo"}
TransformCalls == {"translate", "rotate", "scale"}

\* A run of calls: the context, the transform under which the current path was
\* built (a path keeps the place its points had when they were added), and what was
\* put on the surface.
StartRun(c) == [c |-> c, path |-> <<>>, out |-> <<>>]

Painting(f, shape, pen) == [f |-> f, shape |-> shape, pen |-> pen]

Step(r, op) ==
  LET c == r.c IN
  CASE op.f = "save" ->
         [r EXCEPT !.c.stack = Append(c.stack, c.st)]
    [] op.f = "restore" ->
         IF c.stack = <<>>
           THEN r
           ELSE [r EXCEPT !.c.st = c.stack[Len(c.stack)],
                          !.c.stack = SubSeq(c.stack, 1, Len(c.stack) - 1)]
    [] op.f \in TransformCalls ->
         [r EXCEPT !.c.st.transform = Append(c.st.transform, op)]
    [] op.f = "imageSmoothingEnabled" ->
         [r EXCEPT !.c.st.smoothing = FALSE]
    [] op.f = "beginPath" ->
         [r EXCEPT !.path = <<>>]
    [] op.f \in PathCalls ->
         [r EXCEPT !.path = c.st.transform]
    [] op.f \in PathDraws ->
         [r EXCEPT !.out = Append(r.out, Painting(op.f, r.path, c.st.transform))]
    [] op.f \in DirectDraws ->
         [r EXCEPT !.out = Append(r.out, Painting(op.f, c.st.transform, c.st.transform))]
    [] OTHER -> r

\* the calls of a list in their order (the context after the first call and the
\* calls left are bound as values before the rest runs)
RECURSIVE Exec(_, _)
Exec(r, ops) ==
  IF ops = <<>>
    THEN r
    ELSE CHOOSE end \in {Exec(next, rest) : next \in {Step(r, Head(ops))},
                                            rest \in {Tail(ops)}} : TRUE

Names(ops) == [i \in 1..Len(ops) |-> ops[i].f]

---------------------------------------------------------------------------
\* The drawing primitives, each as the calls it makes on the context, in order

Save == Op("save", <<>>)
Restore == Op("restore", <<>>)
BeginPath == Op("beginPath", <<>>)
RotateCtx(rot, mode) == Op("rotate", Times(rot, mode))

PointOps(x, y, size) ==
  <<Save, Op("fillRect", <<x, y, size, size>>), Restore>>

LineOps(x1, y1, x2, y2) ==
  <<Save, BeginPath, Op("moveTo", <<x1, y1>>), Op("lineTo", <<x2, y2>>),
    Op("stroke", <<>>), Restore>>

TriangleOps(x1, y1, x2, y2, x3, y3) ==
  <<Save, BeginPath, Op("moveTo", <<x1, y1>>), Op("lineTo", <<x2, y2>>),
    Op("lineTo", <<x3, y3>>), Op("lineTo", <<x1, y1>>),
    Op("fill", <<>>), Op("stroke", <<>>), Restore>>

\* sizes are even in the model, so size / 2 is whole
SquareOps(x, y, size, rot, mode) ==
  <<Save, Op("translate", <<x + size \div 2, y + size \div 2>>),
    RotateCtx(rot, mode),
    Op("translate", <<-(size \div 2), -(size \div 2)>>),
    Op("scale", <<size, size>>),
    BeginPath, Op("rect", <<0, 0, 1, 1>>),
    Op("fill", <<>>), Op("stroke", <<>>), Restore>>

RectOps(x, y, w, h, rot, mode) ==
  <<Save, Op("translate", <<x + w \div 2, y + h \div 2>>),
    RotateCtx(rot, mode),
    Op("translate", <<-(w \div 2), -(h \div 2)>>),
    Op("scale", <<w, h>>),
    BeginPath, Op("rect", <<0, 0, 1, 1>>),
    Op("fill", <<>>), Restore, Op("stroke", <<>>), Restore>>

CircleOps(x, y, radius) ==
  <<Save, BeginPath, Op("arc", <<x, y, radius>>),
    Op("fill", <<>>), Op("stroke", <<>>), Restore>>

EllipseOps(x, y, radiusX, radiusY, rot, mode) ==
  <<Save, Op("translate", <<x, y>>), RotateCtx(rot, mode),
    BeginPath, Op("ellipse", <<0, 0, radiusX, radiusY>>),
    Op("fill", <<>>), Op("stroke", <<>>), Restore>>

BezierOps(x1, y1, x2, y2, x3, y3, x4, y4) ==
  <<Save, BeginPath, Op("moveTo", <<x1, y1>>),
    Op("bezierCurveTo", <<x2, y2, x3, y3, x4, y4>>),
    Op("stroke", <<>>), Restore>>

\* text(text, x, y, size): size is <<>> when the argument is left out
TextOps(x, y, size, ts) ==
  <<Save, Op("fillText", <<x, y + (IF size = <<>> THEN ts ELSE size[1])>>), Restore>>

\* image(image, x, y, width, height) for an image of size iw x ih whose
\* dataset.loaded is 'true' or not; w and h are <<>> when left out
ImageOps(loaded, iw, ih, x, y, w, h, rot, mode) ==
  LET dw == IF w = <<>> THEN iw ELSE w[1]
      dh == IF h = <<>> THEN ih ELSE h[1]
  IN IF ~loaded
       THEN <<>>
       ELSE <<Save, Op("imageSmoothingEnabled", <<>>),
              Op("translate", <<x + dw \div 2, y + dh \div 2>>),
              RotateCtx(rot, mode),
              Op("drawImage", <<-(dw \div 2), -(dh \div 2), dw, dh>>), Restore>>

\* DrawImage.draw(x, y) for an offscreen canvas of size cw x ch
DrawImageOps(cw, ch, x, y, rot, mode) ==
  <<Save, Op("translate", <<x + cw \div 2, y + ch \div 2>>),
    RotateCtx(rot, mode),
    Op("drawImage", <<-(cw \div 2), -(ch \div 2)>>), Restore>>

---------------------------------------------------------------------------
\* Calls of the drawing primitives and of the style setters on a created surface

\* the scheduler and input state, which no drawing call touches
loopVars == <<frameRate, frameInterval, running, mouseMoved, frameCount, deltaTime,
              mouseX, mouseY, mouseIsPressed, created, oldTime, elapsed, pending,
              now, hooks, drawAt, ticks>>

\* a primitive: its calls run on the context, what they paint is recorded
Draws(name, arg, ops) ==
  /\ created
  /\ LET r == Exec(StartRun(ctx), ops) IN
       /\ ctx' = r.c
       /\ painted' = r.out
  /\ last' = Did(name, arg, Names(ops), <<>>)
  /\ UNCHANGED <<loopVars, rotation, angleMode>>
  /\ UNCHANGED <<textSize, fontName, width, height, assetVars, gridRun, dimg>>
  /\ UNCHANGED <<gameVars, tickVars>>

Point ==
  \E x \in Coords, size \in Sizes :
    Draws("point", <<x, 1, size>>, PointOps(x, 1, size))

Line ==
  \E x2 \in Coords :
    Draws("line", <<0, 0, x2, 3>>, LineOps(0, 0, x2, 3))

Triangle ==
  \E x3 \in Coords :
    Draws("triangle", <<0, 0, 4, 0, x3, 3>>, TriangleOps(0, 0, 4, 0, x3, 3))

Square ==
  \E x \in Coords, size \in Sizes :
    Draws("square", <<x, 1, size>>, SquareOps(x, 1, size, rotation, angleMode))

Rect ==
  \E x \in Coords, w \in Sizes :
    Draws("rect", <<x, 1, w, 2>>, RectOps(x, 1, w, 2, rotation, angleMode))

Circle ==
  \E x \in Coords, radius \in Sizes :
    Draws("circle", <<x, 2, radius>>, CircleOps(x, 2, radius))

Ellipse ==
  \E x \in Coords, radiusX \in Sizes :
    Draws("ellipse", <<x, 2, radiusX, 2>>,
          EllipseOps(x, 2, radiusX, 2, rotation, angleMode))

Bezier ==
  \E x4 \in Coords :
    Draws("bezier", <<0, 0, 1, 2, 3, 2, x4, 0>>, BezierOps(0, 0, 1, 2, 3, 2, x4, 0))

Text ==
  \E x \in Coords, size \in {<<>>, <<12>>} :
    Draws("text", <<x, 1>> \o size, TextOps(x, 1, size, textSize))

\* the style setters, of which the model has fill(color) and noStroke()
SetsStyle(name, arg, st) ==
  /\ created
  /\ ctx' = [ctx EXCEPT !.st = st]
  /\ last' = Did(name, arg, <<>>, <<>>)
  /\ UNCHANGED <<loopVars, rotation, angleMode>>
  /\ UNCHANGED <<textSize, fontName, width, height, assetVars, gridRun, dimg>>
  /\ painted' = <<>>
  /\ UNCHANGED <<gameVars, tickVars>>

Fill ==
  \E color \in Colors :
    SetsStyle("fill", <<>>, [ctx.st EXCEPT !.fillStyle = color])

NoStroke == SetsStyle("noStroke", <<>>, [ctx.st EXCEPT !.strokeStyle = "transparent"])

---------------------------------------------------------------------------
\* loadImage(path), the load and error events of the image, image(image, x, y, w, h)

\* the size of the picture in each file: the files are not part of the source; the
\* game gives the size of the drop's picture (index.js:20-23) and places the bucket
\* as a picture of the same size (index.js:41-43)
ImageSize(i) == IF i = 1 THEN <<100, 100>> ELSE <<100, 100>>

\* loadImage: a new Image whose loading has begun
LoadImage ==
  /\ \E i \in ImageIds :
       /\ images[i] = "none"
       /\ images' = [images EXCEPT ![i] = "loading"]
       /\ last' = Did("loadImage", <<i>>, <<>>, <<>>)
  /\ UNCHANGED <<loopVars, rotation, angleMode>>
  /\ UNCHANGED <<surfaceVars, fonts, docFonts, waiting, gridRun, dimg>>
  /\ painted' = <<>>
  /\ UNCHANGED <<gameVars, tickVars>>

\* image.onload: dataset.loaded = 'true'
ImageOnload ==
  /\ \E i \in ImageIds :
       /\ images[i] = "loading"
       /\ images' = [images EXCEPT ![i] = "loaded"]
       /\ last' = Did("onload", <<i>>, <<>>, <<>>)
  /\ UNCHANGED <<loopVars, rotation, angleMode>>
  /\ UNCHANGED <<surfaceVars, fonts, docFonts, waiting, gridRun, dimg>>
  /\ painted' = <<>>
  /\ UNCHANGED <<gameVars, tickVars>>

\* the load fails: no handler is registered for it
ImageError ==
  /\ \E i \in ImageIds :
       /\ images[i] = "loading"
       /\ images' = [images EXCEPT ![i] = "failed"]
       /\ last' = Did("onerror", <<i>>, <<>>, <<>>)
  /\ UNCHANGED <<loopVars, rotation, angleMode>>
  /\ UNCHANGED <<surfaceVars, fonts, docFonts, waiting, gridRun, dimg>>
  /\ painted' = <<>>
  /\ UNCHANGED <<gameVars, tickVars>>

IsLoaded_always(state) == TRUE

\* image.dataset.loaded === 'true'
IsLoaded(state) == state = "loaded"

Image ==
  \E i \in ImageIds, x \in Coords, wh \in {<<>>, <<2, 2>>} :
    /\ images[i] # "none"
    /\ LET w == IF wh = <<>> THEN <<>> ELSE <<wh[1]>>
           h == IF wh = <<>> THEN <<>> ELSE <<wh[2]>>
       IN Draws("image", <<i, x, 1>> \o wh,
                ImageOps(IsLoaded(images[i]), ImageSize(i)[1], ImageSize(i)[2],
                         x, 1, w, h, rotation, angleMode))

---------------------------------------------------------------------------
\* DrawImage: new DrawImage(width, height), set, scale and draw

\* the value a Uint8ClampedArray stores for num / den: rounded to the nearest whole
\* number, a half to the even neighbour, and clamped to 0..255
ToUint8Clamp(num, den) ==
  LET q == num \div den
      r == num % den
      rounded == IF 2 * r > den THEN q + 1
                 ELSE IF 2 * r = den THEN q + (q % 2)
                 ELSE q
  IN IF rounded < 0 THEN 0 ELSE IF rounded > 255 THEN 255 ELSE rounded

\* new ImageData(w, h): w * h * 4 zero bytes; the model indexes them from 1
BlankData(w, h) == [k \in 1..(w * h * 4) |-> 0]

DImgNew ==
  /\ \E size \in DImgSizes :
       /\ dimg' = [width |-> size[1], height |-> size[2],
                   data |-> BlankData(size[1], size[2]),
                   cw |-> size[1], ch |-> size[2]]
       /\ last' = Did("new DrawImage", size, <<>>, <<>>)
  /\ UNCHANGED <<loopVars, rotation, angleMode>>
  /\ UNCHANGED <<surfaceVars, assetVars, gridRun>>
  /\ painted' = <<>>
  /\ UNCHANGED <<gameVars, tickVars>>

\* set(x, y, color): each component times 2.55 (= 51 / 20) is stored
SetOf(d, x, y, color) ==
  LET at == (y * d.width + x) * 4 IN
  [d EXCEPT !.data = [k \in 1..Len(d.data) |->
                        IF k - 1 \in at..(at + 3)
                          THEN ToUint8Clamp(color[k - at] * 51, 20)
                          ELSE d.data[k]]]

DImgSet ==
  /\ dimg.width > 0
  /\ \E pt \in DImgPoints, color \in DImgColors :
       /\ pt[1] < dimg.width
       /\ pt[2] < dimg.height
       /\ dimg' = SetOf(dimg, pt[1], pt[2], color)
       /\ last' = Did("DrawImage.set", pt \o color, <<>>, <<>>)
  /\ UNCHANGED <<loopVars, rotation, angleMode>>
  /\ UNCHANGED <<surfaceVars, assetVars, gridRun>>
  /\ painted' = <<>>
  /\ UNCHANGED <<gameVars, tickVars>>

\* the place in the new buffer that scale writes channel c of the copy (dx, dy) of
\* the source pixel (x, y) to, for a source of width w
DestIndex_oldStride(w, scale, x, y, dx, dy, c) ==
  ((y * scale + dy) * w + (x * scale + dx)) * 4 + c

DestIndex(w, scale, x, y, dx, dy, c) ==
  ((y * scale + dy) * (w * scale) + (x * scale + dx)) * 4 + c

SrcIndex(w, x, y, c) == (y * w + x) * 4 + c

\* scale(scale): the four nested loops write in the order y, x, dy, dx; a place
\* written twice keeps the later value, a place never written stays 0, and a write
\* past the end of the buffer is dropped
ScaleOf(d, scale) ==
  LET w == d.width
      h == d.height
      Writes == (0..(h - 1)) \X (0..(w - 1)) \X (0..(scale - 1)) \X (0..(scale - 1))
      Rank(t) == ((t[1] * w + t[2]) * scale + t[3]) * scale + t[4]
      To(t, c) == DestIndex(w, scale, t[2], t[1], t[4], t[3], c)
      Hits(k) == {t \in Writes : \E c \in 0..3 : To(t, c) = k - 1}
      Latest(k) == CHOOSE t \in Hits(k) : \A u \in Hits(k) : Rank(u) <= Rank(t)
      Channel(k, t) == CHOOSE c \in 0..3 : To(t, c) = k - 1
      newImageData ==
        [k \in 1..(w * scale * h * scale * 4) |->
           IF Hits(k) = {} THEN 0
           ELSE LET t == Latest(k)
                IN d.data[SrcIndex(w, t[2], t[1], Channel(k, t)) + 1]]
  IN [d EXCEPT !.data = newImageData,
               !.width = w * scale,
               !.height = h * scale]

DImgScale ==
  /\ dimg.width > 0
  /\ \E scale \in Scales :
       /\ dimg.width * scale <= MaxSide
       /\ dimg.height * scale <= MaxSide
       /\ dimg' = ScaleOf(dimg, scale)
       /\ last' = Did("DrawImage.scale", <<scale>>, <<>>, <<>>)
  /\ UNCHANGED <<loopVars, rotation, angleMode>>
  /\ UNCHANGED <<surfaceVars, assetVars, gridRun>>
  /\ painted' = <<>>
  /\ UNCHANGED <<gameVars, tickVars>>

\* draw(x, y) draws the offscreen canvas, which keeps the size it was made with
DImgDraw ==
  /\ dimg.cw > 0
  /\ \E x \in Coords :
       Draws("DrawImage.draw", <<x, 1>>,
             DrawImageOps(dimg.cw, dimg.ch, x, 1, rotation, angleMode))

---------------------------------------------------------------------------
\* textSize(size), font(name), loadFont(name, path), font(handle)

SetFont(c, size, family) == [c EXCEPT !.st.font = <<size, family>>]

TextSize ==
  /\ created
  /\ \E size \in TextSizes :
       /\ textSize' = size
       /\ ctx' = SetFont(ctx, size, fontName)
       /\ last' = Did("textSize", <<size>>, <<>>, <<>>)
  /\ UNCHANGED <<loopVars, rotation, angleMode>>
  /\ UNCHANGED <<fontName, width, height, assetVars, gridRun, dimg>>
  /\ painted' = <<>>
  /\ UNCHANGED <<gameVars, tickVars>>

\* font(fontName) with a family name
FontByName ==
  /\ created
  /\ \E name \in FontNames :
       /\ fontName' = name
       /\ ctx' = SetFont(ctx, textSize, name)
       /\ last' = Did("font", <<>>, <<name>>, <<>>)
  /\ UNCHANGED <<loopVars, rotation, angleMode>>
  /\ UNCHANGED <<textSize, width, height, assetVars, gridRun, dimg>>
  /\ painted' = <<>>
  /\ UNCHANGED <<gameVars, tickVars>>

\* loadFont(name, path): a new Font whose file is being fetched
LoadFont ==
  /\ \E f \in FontIds :
       /\ fonts[f] = "none"
       /\ fonts' = [fonts EXCEPT ![f] = "pending"]
       /\ last' = Did("loadFont", <<>>, <<f>>, <<>>)
  /\ UNCHANGED <<loopVars, rotation, angleMode>>
  /\ UNCHANGED <<surfaceVars, images, docFonts, waiting, gridRun, dimg>>
  /\ painted' = <<>>
  /\ UNCHANGED <<gameVars, tickVars>>

\* what a reaction registered by font(handle) does when it runs: the promise's value
\* is the set of the document's fonts, and the first face of that set is taken
FirstOf(faces, f) == faces[1]

\* the file arrives: the face is added to the document's fonts, the promise
\* resolves with that set, resolved becomes true, and the reactions registered
\* meanwhile run, each with the text size of this moment
FontResolves ==
  /\ \E f \in FontIds :
       /\ fonts[f] = "pending"
       /\ fonts' = [fonts EXCEPT ![f] = "resolved"]
       /\ docFonts' = Append(docFonts, f)
       /\ waiting' = [waiting EXCEPT ![f] = 0]
       /\ IF waiting[f] > 0
            THEN /\ fontName' = FirstOf(docFonts', f)
                 /\ ctx' = SetFont(ctx, textSize, FirstOf(docFonts', f))
            ELSE UNCHANGED <<fontName, ctx>>
       /\ last' = Did("fontFace.then", <<waiting[f]>>, <<f>>, <<>>)
  /\ UNCHANGED <<loopVars, rotation, angleMode>>
  /\ UNCHANGED <<textSize, width, height, images, gridRun, dimg>>
  /\ painted' = <<>>
  /\ UNCHANGED <<gameVars, tickVars>>

\* the fetch fails: the promise never settles
FontFails ==
  /\ \E f \in FontIds :
       /\ fonts[f] = "pending"
       /\ fonts' = [fonts EXCEPT ![f] = "failed"]
       /\ last' = Did("fetch failed", <<>>, <<f>>, <<>>)
  /\ UNCHANGED <<loopVars, rotation, angleMode>>
  /\ UNCHANGED <<surfaceVars, images, docFonts, waiting, gridRun, dimg>>
  /\ painted' = <<>>
  /\ UNCHANGED <<gameVars, tickVars>>

\* font(handle): on a resolved handle keys() is called on the promise, which has no
\* such method; otherwise a reaction is registered on the promise
FontByHandle ==
  /\ created
  /\ \E f \in FontIds :
       /\ fonts[f] # "none"
       /\ IF fonts[f] = "resolved"
            THEN /\ last' = Did("font", <<>>, <<f, "TypeError">>, <<>>)
                 /\ UNCHANGED waiting
            ELSE /\ waiting[f] < MaxWaiting
                 /\ waiting' = [waiting EXCEPT ![f] = waiting[f] + 1]
                 /\ last' = Did("font", <<>>, <<f, "then">>, <<>>)
  /\ UNCHANGED <<loopVars, rotation, angleMode>>
  /\ UNCHANGED <<surfaceVars, images, fonts, docFonts, gridRun, dimg>>
  /\ painted' = <<>>
  /\ UNCHANGED <<gameVars, tickVars>>

---------------------------------------------------------------------------
\* grid(sizeX, sizeY)

\* i < total / size for a counter i >= 0: total / 0 is Infinity for total > 0 and
\* NaN for total = 0, and the quotient by a negative size is not above zero
Below_inclusive(i, total, size) ==
  IF size > 0 THEN i * size <= total
  ELSE IF size = 0 THEN total > 0
  ELSE FALSE

Below(i, total, size) ==
  IF size > 0 THEN i * size < total
  ELSE IF size = 0 THEN total > 0
  ELSE FALSE

GridFrame(sizeX, sizeY) ==
  [pc |-> "outer", sizeX |-> sizeX, sizeY |-> sizeY, x |-> 0, y |-> 0, segs |-> <<>>]

\* one test of a loop condition with what follows it; a segment is the pair of a
\* moveTo and a lineTo, written <<x1, y1, x2, y2>>
GridNext(g, w, h) ==
  IF g.pc = "outer"
    THEN IF Below(g.x, w, g.sizeX)
           THEN [g EXCEPT !.pc = "inner", !.y = 0]
           ELSE [g EXCEPT !.pc = "exit"]
    ELSE IF Below(g.y, h, g.sizeY)
           THEN [g EXCEPT !.segs = Append(@, <<0, g.y * g.sizeY, w, g.y * g.sizeY>>),
                          !.y = g.y + 1]
           ELSE [g EXCEPT !.segs = Append(@, <<g.x * g.sizeX, 0, g.x * g.sizeX, h>>),
                          !.x = g.x + 1,
                          !.pc = "outer"]

RECURSIVE GridLoop(_, _, _)
GridLoop(g, w, h) == IF g.pc = "exit" THEN g ELSE GridLoop(GridNext(g, w, h), w, h)

RECURSIVE PathOf(_)
PathOf(segs) ==
  IF segs = <<>> THEN <<>>
  ELSE <<Op("moveTo", <<Head(segs)[1], Head(segs)[2]>>),
         Op("lineTo", <<Head(segs)[3], Head(segs)[4]>>)>> \o PathOf(Tail(segs))

GridOps(segs) == <<Save, BeginPath>> \o PathOf(segs) \o <<Op("stroke", <<>>), Restore>>

\* a call with positive cell sizes, from entry to return
Grid ==
  \E sizeX \in CellSizes, sizeY \in CellSizes :
    /\ sizeX > 0
    /\ sizeY > 0
    /\ Draws("grid", <<sizeX, sizeY>>,
             GridOps(GridLoop(GridFrame(sizeX, sizeY), width, height).segs))

\* The same call taken one loop test at a time, for any cell sizes: entry, the
\* tests, and the return.  Nothing else runs on the page while the call is running.
GridRunning == gridRun.pc \in {"outer", "inner", "exit"}

GridEnter ==
  /\ created
  /\ ~GridRunning
  /\ \E sizeX \in CellSizes, sizeY \in CellSizes :
       /\ gridRun' = GridFrame(sizeX, sizeY)
       /\ last' = Did("grid", <<sizeX, sizeY>>, <<"save", "beginPath">>, <<>>)
  /\ ctx' = Exec(StartRun(ctx), <<Save, BeginPath>>).c
  /\ painted' = <<>>
  /\ UNCHANGED <<loopVars, rotation, angleMode>>
  /\ UNCHANGED <<textSize, fontName, width, height, assetVars, dimg>>
  /\ UNCHANGED <<gameVars, tickVars>>

GridStep ==
  /\ gridRun.pc \in {"outer", "inner"}
  /\ Len(gridRun.segs) < MaxSegs
  /\ gridRun' = GridNext(gridRun, width, height)
  /\ UNCHANGED <<loopVars, rotation, angleMode, last>>
  /\ UNCHANGED <<surfaceVars, assetVars, dimg, painted>>
  /\ UNCHANGED <<gameVars, tickVars>>

GridReturn ==
  /\ gridRun.pc = "exit"
  /\ gridRun' = [gridRun EXCEPT !.pc = "returned"]
  /\ LET r == Exec(StartRun(ctx),
                   PathOf(gridRun.segs) \o <<Op("stroke", <<>>), Restore>>)
     IN /\ ctx' = r.c
        /\ painted' = r.out
  /\ last' = Did("grid", last.arg, Names(GridOps(gridRun.segs)), <<>>)
  /\ UNCHANGED <<loopVars, rotation, angleMode>>
  /\ UNCHANGED <<textSize, fontName, width, height, assetVars, dimg>>
  /\ UNCHANGED <<gameVars, tickVars>>

---------------------------------------------------------------------------
\* The mousedown and mouseup listeners of the surface

InvokesPressed_never(hs) == FALSE

InvokesPressed(hs) == "mousePressed" \in hs

PressedAfterUp == FALSE

MouseDown ==
  /\ created
  /\ mouseIsPressed' = TRUE
  /\ IF InvokesPressed(hooks)
       THEN \E call \in HookCalls :
              LET after == HookBody(call, Lib) IN
                /\ running' = after.running
                /\ last' = Did("mousedown", <<mouseX, mouseY>>,
                               <<"mousePressed">>
                                 \o (IF call = "throw" THEN <<"Error">> ELSE <<>>),
                               <<>>)
       ELSE /\ last' = Did("mousedown", <<>>, <<>>, <<>>)
            /\ UNCHANGED running
  /\ UNCHANGED <<frameRate, frameInterval, rotation, angleMode, mouseMoved,
                 frameCount, deltaTime, mouseX, mouseY, created, oldTime, elapsed,
                 pending, now, hooks, drawAt, ticks>>
  /\ UNCHANGED drawVars
  /\ UNCHANGED <<gameVars, tickVars>>

MouseUp ==
  /\ created
  /\ mouseIsPressed' = PressedAfterUp
  /\ last' = Did("mouseup", <<>>, <<>>, <<>>)
  /\ UNCHANGED <<frameRate, frameInterval, running, rotation, angleMode, mouseMoved,
                 frameCount, deltaTime, mouseX, mouseY, created, oldTime, elapsed,
                 pending, now, hooks, drawAt, ticks>>
  /\ UNCHANGED drawVars
  /\ UNCHANGED <<gameVars, tickVars>>

\* the hooks of a sketch that reacts to the pointer
InitInput == \E hs \in SUBSET {"mousePressed", "mouseMoved"} : InitState(hs, NoHandler)

NextInput ==
  \/ CreateCanvas
  \/ MouseMove
  \/ MouseDown
  \/ MouseUp
  \/ StopDraw

SpecInput == InitInput /\ [][NextInput]_vars

---------------------------------------------------------------------------
\* rectCollision(x1, y1, w1, h1, x2, y2, w2, h2)

RectCollisionOf_closed(x1, y1, w1, h1, x2, y2, w2, h2) ==
  x1 <= x2 + w2 /\ x1 + w1 >= x2 /\ y1 <= y2 + h2 /\ y1 + h1 >= y2

RectCollisionOf(x1, y1, w1, h1, x2, y2, w2, h2) ==
  x1 < x2 + w2 /\ x1 + w1 > x2 /\ y1 < y2 + h2 /\ y1 + h1 > y2

\* a boolean result as a number
Bit(b) == IF b THEN 1 ELSE 0

\* the arguments of the call to come
InitCollision ==
  \E a \in [1..8 -> 0..MaxCoord] : InitState({}, Did("call rectCollision", a, <<>>, <<>>))

RectCollision ==
  /\ last.op = "call rectCollision"
  /\ LET a == last.arg IN
       last' = Did("rectCollision", a, <<>>,
                   <<Bit(RectCollisionOf(a[1], a[2], a[3], a[4], a[5], a[6], a[7], a[8]))>>)
  /\ UNCHANGED <<loopVars, rotation, angleMode>>
  /\ UNCHANGED drawVars
  /\ UNCHANGED <<gameVars, tickVars>>

NextCollision == RectCollision

SpecCollision == InitCollision /\ [][NextCollision]_vars

---------------------------------------------------------------------------
\* The drawing calls on a surface: a sketch without hooks

InitDraw == InitState({}, NoHandler)

NextDraw ==
  \/ CreateCanvas
  \/ AngleMode
  \/ Rotate
  \/ Fill
  \/ NoStroke
  \/ Point
  \/ Line
  \/ Triangle
  \/ Square
  \/ Rect
  \/ Circle
  \/ Ellipse
  \/ Bezier
  \/ Text
  \/ Grid
  \/ DImgNew
  \/ DImgDraw

SpecDraw == InitDraw /\ [][NextDraw]_vars

\* images: loading them and drawing them
NextImage ==
  \/ CreateCanvas
  \/ AngleMode
  \/ Rotate
  \/ LoadImage
  \/ ImageOnload
  \/ ImageError
  \/ Image

SpecImage == InitDraw /\ [][NextImage]_vars

\* text and fonts
NextFont ==
  \/ CreateCanvas
  \/ TextSize
  \/ FontByName
  \/ LoadFont
  \/ FontResolves
  \/ FontFails
  \/ FontByHandle
  \/ Text

SpecFont == InitDraw /\ [][NextFont]_vars

\* DrawImage buffers
NextDrawImage ==
  \/ DImgNew
  \/ DImgSet
  \/ DImgScale

SpecDrawImage == InitDraw /\ [][NextDrawImage]_vars

\* grid, one loop test at a time; a call that is in its loops goes on
NextGrid ==
  \/ CreateCanvas
  \/ GridEnter
  \/ GridStep
  \/ GridReturn

SpecGrid == InitDraw /\ [][NextGrid]_vars /\ WF_vars(GridStep)

---------------------------------------------------------------------------
\* The frame scheduler with its inputs

Next ==
  \/ CreateCanvas
  \/ Animate
  \/ MouseMove
  \/ FrameRate
  \/ FrameRateGet
  \/ StopDraw

Spec == Init /\ [][Next]_vars

\* The same at a constant frame rate: frameRate is never called
NextFixedRate ==
  \/ CreateCanvas
  \/ Animate
  \/ MouseMove
  \/ StopDraw

SpecFixedRate == Init /\ [][NextFixedRate]_vars

---------------------------------------------------------------------------
\* Properties of the frame scheduler

\* a step of Animate: after createCanvas only a host animation callback moves the
\* host clock
IsCallback == created /\ now' # now

Invoked(h) == \E i \in 1..Len(last.log) : last.log[i] = h

TickLog(moved) ==
  <<"requestAnimationFrame", "draw">> \o (IF moved THEN <<"mouseMoved">> ELSE <<>>)
    \o <<"frameCount++", "deltaTime">>

\* C1: once stopDraw() has set the running flag to false, a host animation callback
\* that starts afterwards invokes no hook, leaves the frame counter alone and
\* schedules no further callback, and nothing sets the running flag back to true.
C1_StoppedIsTerminal ==
  [][~running =>
       /\ ~running'
       /\ (IsCallback =>
             /\ last' = Did("animate", <<now'>>, <<>>, <<>>)
             /\ pending' = pending - 1
             /\ UNCHANGED <<frameCount, drawAt, ticks, oldTime, deltaTime, mouseMoved>>)]_vars

C1_Witness ==
  /\ created /\ ~running /\ frameCount > 1
  /\ last = Did("animate", <<now>>, <<>>, <<>>)
  /\ pending = 0

\* C2: while running, a host callback whose elapsed time since the baseline is below
\* the frame interval invokes no hook and leaves the baseline, the frame counter,
\* deltaTime and the pointer-moved flag unchanged; it only schedules the next callback.
C2_ThrottledIsNoOp ==
  [][(IsCallback /\ running /\ now' - oldTime < frameInterval) =>
       /\ last' = Did("animate", <<now'>>, <<"requestAnimationFrame">>, <<>>)
       /\ pending' = pending
       /\ UNCHANGED <<oldTime, frameCount, deltaTime, mouseMoved, drawAt, ticks,
                      running, frameRate, frameInterval, mouseX, mouseY>>]_vars

C2_Witness ==
  /\ last = Did("animate", <<now>>, <<"requestAnimationFrame">>, <<>>)
  /\ elapsed < frameInterval
  /\ mouseMoved /\ deltaTime > 0 /\ oldTime > 0 /\ pending = 1

\* C3 as stated: at a constant frame rate, two consecutive invocations of the draw
\* hook are at least one frame interval apart in host time.
C3_DrawsOneIntervalApart ==
  [][(drawAt' # drawAt /\ drawAt # -1) => drawAt' - drawAt >= frameInterval]_vars

\* C3 as amended: at a constant frame rate the draw hook fires only on a callback
\* where the time elapsed since the baseline is at least the frame interval; the
\* baseline is the previous firing's timestamp less the phase left over at that
\* firing, which is below one interval.
C3_DrawsOneIntervalAfterBaseline ==
  [][drawAt' # drawAt =>
       /\ drawAt' = now'
       /\ drawAt' - oldTime >= frameInterval
       /\ (drawAt # -1 => (oldTime <= drawAt /\ drawAt - oldTime < frameInterval))]_vars

\* a second firing of the draw hook, at a callback later than the baseline it leaves
C3_Witness ==
  /\ last.op = "animate" /\ Invoked("draw") /\ drawAt = now
  /\ ticks >= 2
  /\ elapsed >= frameInterval
  /\ now - oldTime > 0

\* C4: while running, a host callback whose elapsed time since the baseline is
\* exactly the frame interval executes the tick.
C4_ExecutesAtExactInterval ==
  [][(IsCallback /\ running /\ now' - oldTime = frameInterval) =>
       Len(last'.log) > 1]_vars

\* C5: after an executed tick has dispatched the pointer-move hook, the
\* pointer-moved flag is false again.
C5_MoveFlagCleared ==
  (last.op = "animate" /\ Invoked("mouseMoved")) => ~mouseMoved

\* C6: a pointer-move event stores the coordinates and sets the flag without invoking
\* a hook; the mouseMoved hook is invoked only inside an executed tick, after the draw
\* hook has returned and before the frame counter is incremented (which a throwing
\* mouseMoved hook prevents), never on a throttled callback.
C6_MoveHookOnlyInTick ==
  /\ last.op = "mousemove" =>
       /\ last.log = <<>>
       /\ mouseMoved
       /\ <<mouseX, mouseY>> = last.arg
  /\ Invoked("mouseMoved") =>
       /\ last.op = "animate"
       /\ \/ last.log = TickLog(TRUE)
          \/ last.log = <<"requestAnimationFrame", "draw", "mouseMoved", "Error">>
       /\ elapsed >= frameInterval

C6_Witness ==
  /\ last.op = "animate" /\ last.log = TickLog(TRUE)
  /\ mouseX = 8 /\ mouseY = 2

\* C7: the frame counter starts at 1, is incremented by exactly 1 on every executed
\* tick that runs to its end and is changed by nothing else: it never decreases and
\* always equals 1 plus the number of such ticks.
C7_FrameCounter ==
  /\ [](frameCount = 1 + ticks)
  /\ [][frameCount' # frameCount =>
          /\ frameCount' = frameCount + 1
          /\ IsCallback
          /\ last'.log = TickLog(DispatchesMove(mouseMoved, hooks))]_vars

C7_Witness ==
  /\ frameCount = 3 /\ ticks = 2
  /\ last = Did("animate", <<now>>, <<"requestAnimationFrame">>, <<>>)

\* C8: with no draw hook defined, an executed tick raises no error and still performs
\* the rest of the tick (pointer-move dispatch, frame counter, deltaTime).
C8_MissingDrawTolerated ==
  (last.op = "animate" /\ "draw" \notin hooks /\ Len(last.log) > 1) =>
    /\ ~Invoked("ReferenceError")
    /\ Invoked("frameCount++")
    /\ Invoked("deltaTime")

\* C9: the frame interval always equals 1000 / frame rate; frameRate(fps) sets both,
\* frameRate(fps) with the current rate and frameRate() change neither (the latter
\* returns the rate), and a callback is throttled or executed by the interval of the
\* rate in force when it starts.
C9_IntervalFollowsRate ==
  /\ [](frameInterval * frameRate = Ms(1000))
  /\ [][(last'.op = "frameRate" /\ last'.arg # <<>>) =>
          /\ frameRate' = last'.arg[1]
          /\ frameInterval' = FrameIntervalOf(last'.arg[1])
          /\ (last'.arg[1] = frameRate => UNCHANGED <<frameRate, frameInterval>>)]_vars
  /\ [][(last'.op = "frameRate" /\ last'.arg = <<>>) =>
          /\ last'.ret = <<frameRate>>
          /\ UNCHANGED <<frameRate, frameInterval>>]_vars
  /\ [][(IsCallback /\ running) =>
          /\ (Ms(1000) < frameRate * (now' - oldTime) => Len(last'.log) > 1)
          /\ (Ms(1000) > frameRate * (now' - oldTime) => Len(last'.log) = 1)]_vars

\* a tick executed 10 ms after the baseline, which only the 120 fps interval allows
C9_Witness ==
  /\ last.op = "animate" /\ Len(last.log) > 1
  /\ frameRate = 120 /\ frameInterval = 25
  /\ elapsed = 30

---------------------------------------------------------------------------
\* Properties of the rotation

\* C10: in degrees mode, rotateAdd(d) called when the accumulated rotation would
\* reach a full turn resets the stored rotation to 0 before adding: from 350,
\* rotateAdd(20) leaves 20.
C10_WrapsBeforeAdding ==
  (/\ last.op = "rotateAdd"
   /\ angleMode = PiOver180(1)
   /\ last.arg[1] < 360
   /\ last.arg[1] + last.arg[2] >= 360) => rotation = last.arg[2]

\* C11: the wrap threshold follows the angle mode (360 in degrees mode, 2 * PI in
\* radians mode), so a rotateAdd(d) with 0 < d <= one full turn, called with a stored
\* rotation below two full turns, leaves it below two full turns in both modes.
C11_RotationBounded ==
  LET degreesMode == angleMode = PiOver180(1)
      before == last.arg[1]
      d == last.arg[2]
      \* whole numbers: r <= 2 * PI iff r <= 6, r < 4 * PI iff r <= 12
      withinTurn(r) == IF degreesMode THEN r <= 360 ELSE r <= 6
      belowTwoTurns(r) == IF degreesMode THEN r < 720 ELSE r <= 12
  IN (/\ last.op = "rotateAdd"
      /\ belowTwoTurns(before)
      /\ 0 < d /\ withinTurn(d)) => belowTwoTurns(rotation)

---------------------------------------------------------------------------
\* The drawing primitives

PrimitiveNames ==
  {"point", "line", "triangle", "square", "rect", "circle", "ellipse", "bezier",
   "grid", "text", "image", "DrawImage.draw"}

Count(log, f) == Cardinality({i \in 1..Len(log) : log[i] = f})

\* C12: every drawing primitive does exactly one save, as its first call on the
\* context, and exactly one restore, as its last call, so that every transform, fill,
\* stroke and draw call lies between the two; and it leaves the context (transform,
\* style, depth of the save stack) as it found it.
C12_OneSaveOneRestore ==
  [][(last'.op \in PrimitiveNames /\ last'.log # <<>>) =>
       /\ Count(last'.log, "save") = 1
       /\ Count(last'.log, "restore") = 1
       /\ last'.log[1] = "save"
       /\ last'.log[Len(last'.log)] = "restore"
       /\ ctx' = ctx]_vars

\* C13: with a rotation other than 0, whatever a primitive paints has been turned
\* by rotation times the multiplier of the angle mode: the shape painted was placed
\* under a transform that contains that rotate call.
C13_RotationAppliesToAll ==
  (last.op \in PrimitiveNames /\ rotation # 0) =>
     \A i \in 1..Len(painted) :
       \E j \in 1..Len(painted[i].shape) :
         painted[i].shape[j] = RotateCtx(rotation, angleMode)


\* C14: image(img, ...) draws the image exactly when its load has completed; on an
\* image that is not loaded (still loading, or failed) it draws nothing, raises no
\* error and makes no call on the context, which keeps its state and save stack.
\* The readiness flag of an image becomes set only in its load event, and once set
\* stays set.
C14_ImageDrawsOnlyWhenLoaded ==
  [][/\ last'.op = "image" =>
          LET i == last'.arg[1] IN
            IF images[i] = "loaded"
              THEN /\ Len(painted') = 1
                   /\ painted'[1].f = "drawImage"
              ELSE /\ painted' = <<>>
                   /\ last'.log = <<>>
                   /\ ctx' = ctx
     /\ \A i \in ImageIds :
          /\ (images'[i] = "loaded" /\ images[i] # "loaded") =>
               /\ last'.op = "onload"
               /\ last'.arg = <<i>>
               /\ images[i] = "loading"
          /\ images[i] = "loaded" => images'[i] = "loaded"]_vars

\* image() has been called on an image whose load has not completed
C14_Witness ==
  /\ last.op = "image"
  /\ images[last.arg[1]] \in {"loading", "failed"}
  /\ painted = <<>>

---------------------------------------------------------------------------
\* Text and fonts

\* C15: when a font handle F that was unresolved at font(F) resolves, the family of
\* F, with the text size of that moment, becomes the font name and the context font.
C15_DeferredFontIsOwnFamily ==
  (last.op = "fontFace.then" /\ last.arg[1] > 0) =>
     /\ fontName = last.log[1]
     /\ ctx.st.font = <<textSize, last.log[1]>>

\* C16: from the creation of the surface on, the font of the context is the stored
\* text size in pixels followed by the stored font name (20px Arial until textSize
\* or font is called).
C16_ContextFontFollowsState ==
  created => ctx.st.font = <<textSize, fontName>>

---------------------------------------------------------------------------
\* Pointer buttons

\* C17: mouseIsPressed is true exactly when the most recent of the pointer-down and
\* pointer-up events was a pointer-down: a pointer-down sets it, a pointer-up clears
\* it, nothing else changes it.  A pointer-down invokes the mousePressed hook, if the
\* sketch defines it, once and within the event, with the current mouseX and mouseY;
\* a pointer-up invokes no hook and changes nothing but the flag.
C17_PressedFollowsButton ==
  [][/\ last'.op = "mousedown" =>
          /\ mouseIsPressed'
          /\ IF "mousePressed" \in hooks
               THEN /\ Count(last'.log, "mousePressed") = 1
                    /\ last'.arg = <<mouseX, mouseY>>
               ELSE last'.log = <<>>
     /\ last'.op = "mouseup" =>
          /\ ~mouseIsPressed'
          /\ last'.log = <<>>
          /\ UNCHANGED <<frameRate, frameInterval, running, rotation, angleMode,
                         mouseMoved, frameCount, deltaTime, mouseX, mouseY, created,
                         oldTime, elapsed, pending, now, hooks, drawAt, ticks,
                         drawVars>>
     /\ last'.op \notin {"mousedown", "mouseup"} => mouseIsPressed' = mouseIsPressed
    ]_vars

\* a pointer-down at a place the pointer was moved to has called the hook, and the
\* button is still down
C17_Witness ==
  /\ last.op = "mousedown"
  /\ Invoked("mousePressed")
  /\ last.arg = <<mouseX, mouseY>>
  /\ mouseX > 0
  /\ mouseIsPressed

---------------------------------------------------------------------------
\* Collision of rectangles

\* the arguments of a call with the two rectangles swapped
Swapped(a) == <<a[5], a[6], a[7], a[8], a[1], a[2], a[3], a[4]>>
\* the condition as the claim states it, on the arguments a of a call
Overlap(a) ==
  /\ a[1] < a[5] + a[7]
  /\ a[1] + a[3] > a[5]
  /\ a[2] < a[6] + a[8]
  /\ a[2] + a[4] > a[6]
\* the first rectangle ends where the second begins, or the other way round, along x
\* or along y
SharesEdgeOnly(a) ==
  \/ a[1] + a[3] = a[5]
  \/ a[5] + a[7] = a[1]
  \/ a[2] + a[4] = a[6]
  \/ a[6] + a[8] = a[2]

---------------------------------------------------------------------------
\* DrawImage buffers

\* C19: scale(s) with s >= 1 replaces the buffer of a w x h image by one of
\* (w * s) x (h * s) pixels in which the pixel at (x * s + dx, y * s + dy), for
\* 0 <= dx, dy < s, has the four channel values of the source pixel (x, y), and sets
\* width and height to the new size.
C19_ScaleReplicatesPixels ==
  [][last'.op = "DrawImage.scale" =>
       LET s == last'.arg[1]
           w == dimg.width
           h == dimg.height
       IN /\ dimg'.width = w * s
          /\ dimg'.height = h * s
          /\ Len(dimg'.data) = (w * s) * (h * s) * 4
          /\ \A x \in 0..(w - 1), y \in 0..(h - 1), dx \in 0..(s - 1),
                dy \in 0..(s - 1), c \in 1..4 :
               dimg'.data[((y * s + dy) * dimg'.width + (x * s + dx)) * 4 + c]
                 = dimg.data[(y * w + x) * 4 + c]]_vars

\* an image with pixels of two colours has been scaled by 2
C19_Witness ==
  /\ last.op = "DrawImage.scale"
  /\ last.arg = <<2>>
  /\ dimg.width = 4
  /\ dimg.height = 4
  /\ dimg.data[1] = 255
  /\ dimg.data[5] = 255
  /\ dimg.data[9] = 8
  /\ dimg.data[16] = 255

---------------------------------------------------------------------------
\* The loops of grid

GridReturned == gridRun.pc \in {"exit", "returned"}

\* a full-width segment at height k, a full-height segment at k
Horizontal(k) == <<0, k, width, k>>
Vertical(k) == <<k, 0, k, height>>

\* C20 as stated: a call of grid with a cell size of zero never leaves its loops.
C20_ZeroCellNeverReturns ==
  (gridRun.sizeX = 0 \/ gridRun.sizeY = 0) => ~GridReturned

\* C20, amended: on a surface of positive size a call of grid with two positive cell
\* sizes leaves its loops, having drawn only full-width segments at multiples of the cell
\* height below the surface height and full-height segments at multiples of the cell
\* width below the surface width; a call never leaves its loops when the cell width
\* is zero, or when the cell height is zero and the cell width is positive.
C20_GridTerminatesIffLoopsBounded ==
  /\ [](\A i \in 1..Len(gridRun.segs) :
          (gridRun.sizeX > 0 /\ gridRun.sizeY > 0) =>
             \/ \E k \in 0..(height - 1) :
                  k % gridRun.sizeY = 0 /\ gridRun.segs[i] = Horizontal(k)
             \/ \E k \in 0..(width - 1) :
                  k % gridRun.sizeX = 0 /\ gridRun.segs[i] = Vertical(k))
  /\ []((gridRun.sizeX = 0 \/ (gridRun.sizeY = 0 /\ gridRun.sizeX > 0))
          => ~GridReturned)
  /\ ((GridRunning /\ gridRun.sizeX > 0 /\ gridRun.sizeY > 0)
        ~> GridReturned)

\* a call with positive cell sizes has returned after drawing segments of both kinds
C20_Witness ==
  /\ gridRun.pc = "returned"
  /\ gridRun.sizeX = 3
  /\ gridRun.sizeY = 2
  /\ Len(gridRun.segs) = 6
  /\ gridRun.segs[2] = Horizontal(2)
  /\ gridRun.segs[6] = Vertical(3)

---------------------------------------------------------------------------
\* The baseline of the throttle

\* a host callback that went past the throttle: it did more than schedule its successor
ExecutedTick == IsCallback /\ last'.op = "animate" /\ Len(last'.log) > 1

\* C21: on every executed tick the new baseline is the timestamp less the remainder
\* of the elapsed time by the frame interval: the baseline moves by the elapsed time
\* less that remainder, which is a positive whole multiple of the interval, and it
\* equals the timestamp only when the elapsed time is a whole multiple of the interval.
C21_BaselineKeepsPhase ==
  [][ExecutedTick =>
       LET e == now' - oldTime
           phase == e % frameInterval
       IN /\ oldTime' = now' - phase
          /\ oldTime' - oldTime = e - phase
          /\ \E k \in 1..MaxTime : oldTime' - oldTime = k * frameInterval
          /\ oldTime' = now' <=> phase = 0]_vars

\* a tick has run after two whole intervals and a part of a third: the baseline it
\* left lies before its timestamp
C21_Witness ==
  /\ last.op = "animate" /\ Invoked("draw")
  /\ elapsed >= 2 * frameInterval
  /\ elapsed % frameInterval # 0
  /\ oldTime = now - (elapsed % frameInterval)

---------------------------------------------------------------------------
\* The rate of the ticks and the chain of callbacks

\* C27: at a constant frame rate, with timestamps that do not go back and start at
\* the initial baseline or later, the executed ticks up to a callback with timestamp
\* t are at most (t - initial baseline) / frame interval, and the baseline is never
\* later than the latest timestamp.
C27_RateCapped ==
  created =>
    /\ executed * frameInterval <= now - baseline0
    /\ oldTime <= now

\* two ticks have been executed, and the time for a third has not yet passed
C27_Witness ==
  /\ created
  /\ executed = 2
  /\ now - baseline0 < 3 * frameInterval
  /\ last.op = "animate" /\ Len(last.log) > 1

\* C28: after createCanvas, while the running flag is true exactly one animation
\* callback is pending between the host's callbacks, and there is never more than
\* one; the next callback is scheduled before any hook runs, so a tick in which a
\* hook throws leaves the frame counter as it was and a callback pending.
C28_OneCallbackPending ==
  [][/\ pending' <= 1
     /\ (created' /\ running') => pending' = 1
     /\ (IsCallback /\ last'.op = "animate" /\ Len(last'.log) > 0) =>
          last'.log[1] = "requestAnimationFrame"
     /\ (IsCallback /\ last'.op = "animate"
           /\ (\E i \in 1..Len(last'.log) : last'.log[i] \in {"Error", "ReferenceError"})) =>
          /\ frameCount' = frameCount
          /\ pending' = 1]_vars

\* the mouseMoved hook has thrown in a tick, after the draw hook ran, and a callback
\* is pending
C28_Witness ==
  /\ last.op = "animate"
  /\ last.log = <<"requestAnimationFrame", "draw", "mouseMoved", "Error">>
  /\ running
  /\ pending = 1
  /\ executed > ticks

---------------------------------------------------------------------------
\* The font in effect

\* C30: the font name is the one asked for by the most recent font() call: right
\* after font(name) with a plain name, a step that is not a font() call, such as the
\* resolution of a handle given to an earlier font(F), leaves the name in place.
C30_LatestFontWins ==
  [][(/\ last.op = "font"
      /\ Len(last.log) = 1
      /\ fontName = last.log[1]
      /\ last'.op # "font") => fontName' = fontName]_vars

---------------------------------------------------------------------------
\* The game (index.js): its constants, its setup, its spawn timer, its hooks

raindropWidth == 100
raindropHeight == 100
maxRaindrops == 10
\* raindrops[i].y += 5
fallStep == 5

\* createCanvas(600, 600)
SetupSize == <<600, 600>>
\* the two images the game loads
bucket == 1
raindropImage == 2
\* the hooks index.js defines
GameHooks == {"draw", "mousePressed", "mouseMoved"}

WHITE == "rgba(255, 255, 255, 255)"
SKYBLUE == "rgba(130, 200, 229, 255)"
CENTER == "center"

\* bucket.width and bucket.height: the natural size of an Image, 0 until it is loaded
BucketSize(state) == IF IsLoaded(state) THEN ImageSize(bucket) ELSE <<0, 0>>

\* min(...values) for two values
Min(a, b) == IF a < b THEN a ELSE b

\* the page has loaded: setup() runs, once
Setup ==
  /\ ~created
  /\ hooks = GameHooks
  /\ created' = TRUE
  /\ \E t \in StartTimes :
       /\ now' = t
       /\ oldTime' = t
       /\ baseline0' = t
  /\ elapsed' = 0
  /\ pending' = Scheduled(pending)
  /\ width' = SetupSize[1]
  /\ height' = SetupSize[2]
  /\ images' = [i \in ImageIds |-> "loading"]
  /\ bucketX' = width' \div 2 - raindropWidth \div 2
  /\ bucketY' = height' - raindropHeight
  /\ textSize' = 32
  /\ ctx' = [SetFont(BackgroundOn(NewContext, "rgba(0, 0, 0, 255)"), 32, fontName)
               EXCEPT !.st.textAlign = CENTER]
  /\ last' = Did("setup", <<>>,
                  <<"createCanvas", "requestAnimationFrame", "loadMusic", "loadMusic",
                    "loadImage", "loadImage", "textSize", "textAlign", "setInterval">>,
                  <<>>)
  /\ painted' = <<>>
  /\ UNCHANGED <<frameRate, frameInterval, running, rotation, angleMode, mouseMoved,
                 frameCount, deltaTime, mouseX, mouseY, mouseIsPressed, hooks,
                 drawAt, ticks, fontName, fonts, docFonts, waiting, gridRun, dimg,
                 executed>>
  /\ UNCHANGED <<started, raindrops, playerScore, musicPlaying, caught, missed,
                 sounds, frames, firings>>

BelowCap_inclusive(n) == n <= maxRaindrops

\* raindrops.length < maxRaindrops
BelowCap(n) == n < maxRaindrops

TimerSpawns_unstarted(s, n) == BelowCap(n)

\* the condition of the timer's callback
TimerSpawns(s, n) == s /\ BelowCap(n)

\* The callback of setInterval fires.  A drop is the object pushed; its identity is
\* its number among the drops made.
TimerFires ==
  /\ created
  /\ firings < MaxFirings
  /\ firings' = firings + 1
  /\ IF TimerSpawns(started, Len(raindrops))
       THEN \E x \in SpawnXs :
              /\ raindrops' = Append(raindrops,
                                     [x |-> x, y |-> 0 - raindropHeight,
                                      id |-> caught + missed + Len(raindrops) + 1])
              /\ last' = Did("setInterval", <<x>>, <<"push">>, <<>>)
       ELSE /\ raindrops' = raindrops
            /\ last' = Did("setInterval", <<>>, <<>>, <<>>)
  /\ painted' = <<>>
  /\ UNCHANGED <<loopVars, rotation, angleMode>>
  /\ UNCHANGED <<surfaceVars, assetVars, gridRun, dimg, tickVars>>
  /\ UNCHANGED <<started, playerScore, bucketX, bucketY, musicPlaying, caught, missed,
                 sounds, frames>>

\* mousedown on the surface: the listener of the library, which calls the game's
\* mousePressed()
GameMouseDown ==
  /\ created
  /\ mouseIsPressed' = TRUE
  /\ InvokesPressed(hooks)
  /\ started' = TRUE
  /\ musicPlaying' = TRUE
  /\ last' = Did("mousedown", <<mouseX, mouseY>>,
                  <<"mousePressed">> \o (IF musicPlaying THEN <<>> ELSE <<"playMusic">>),
                  <<>>)
  /\ painted' = <<>>
  /\ UNCHANGED <<frameRate, frameInterval, running, rotation, angleMode, mouseMoved,
                 frameCount, deltaTime, mouseX, mouseY, created, oldTime, elapsed,
                 pending, now, hooks, drawAt, ticks>>
  /\ UNCHANGED <<surfaceVars, assetVars, gridRun, dimg, tickVars>>
  /\ UNCHANGED <<raindrops, playerScore, bucketX, bucketY, caught, missed, sounds,
                 frames, firings>>

\* mousemove on the surface of the game
GameMouseMove ==
  /\ created
  /\ \E p \in GamePoints :
       /\ mouseX' = p[1]
       /\ mouseY' = p[2]
  /\ mouseMoved' = TRUE
  /\ last' = Did("mousemove", <<mouseX', mouseY'>>, <<>>, <<>>)
  /\ painted' = <<>>
  /\ UNCHANGED <<frameRate, frameInterval, running, rotation, angleMode,
                 frameCount, deltaTime, mouseIsPressed,
                 created, oldTime, elapsed, pending, now, hooks, drawAt, ticks>>
  /\ UNCHANGED <<surfaceVars, assetVars, gridRun, dimg>>
  /\ UNCHANGED <<gameVars, tickVars>>

\* mouseMoved() of the game
BucketAfterMove(pressed, bx, mx, w, bw) == IF pressed THEN Min(mx, w - bw) ELSE bx

---------------------------------------------------------------------------
\* draw() of the game

\* raindrops.splice(i, 1)
Splice(s, i) == SubSeq(s, 1, i - 1) \o SubSeq(s, i + 1, Len(s))

\* raindrops[i].y > height
PassedBottom(y, h) == y > h

ScoreAfterMiss_kept(score) == score

\* playerScore--
ScoreAfterMiss(score) == score - 1

\* what the loop of draw() works on: the array and the score, with the removals
\* counted, the calls made on the context, and whether a statement threw
LoopStart(drops, score) ==
  [drops |-> drops, score |-> score, caught |-> 0, missed |-> 0, sounds |-> 0,
   ops |-> <<>>, threw |-> FALSE]

\* One pass of the loop's body at index i (i counts from 1).  b is the bucket's box,
\* the state of the drop's image and the height of the surface.  After a splice at i
\* the test of the bucket reads raindrops[i] again: the element that followed the
\* removed one, or undefined past the end, whose property x cannot be read (a
\* TypeError).
LoopBody(g, i, b) ==
  LET d == g.drops[i]
      shown == ImageOps(IsLoaded(b.drop), ImageSize(raindropImage)[1],
                        ImageSize(raindropImage)[2], d.x, d.y, <<>>, <<>>,
                        rotation, angleMode)
      fallen == [g EXCEPT !.ops = @ \o shown, !.drops[i].y = @ + fallStep]
      g2 == IF PassedBottom(d.y + fallStep, b.height)
              THEN [fallen EXCEPT !.drops = Splice(@, i),
                                  !.score = ScoreAfterMiss(@),
                                  !.missed = @ + 1]
              ELSE fallen
  IN IF i > Len(g2.drops)
       THEN [g2 EXCEPT !.threw = TRUE]
       ELSE LET e == g2.drops[i]
            IN IF RectCollisionOf(e.x, e.y, raindropWidth, raindropHeight - 30,
                                  b.x, b.y, b.w, b.h)
                 THEN [g2 EXCEPT !.sounds = @ + 1,
                                 !.drops = Splice(@, i),
                                 !.score = @ + 1,
                                 !.caught = @ + 1]
                 ELSE g2

\* for (let i = 0; i < raindrops.length; i++): the passes from index i on; a pass
\* that throws ends the loop
RECURSIVE DrawLoop(_, _, _)
DrawLoop(g, i, b) ==
  IF g.threw \/ i > Len(g.drops)
    THEN g
    ELSE CHOOSE end \in {DrawLoop(after, i + 1, b) : after \in {LoopBody(g, i, b)}} :
           TRUE

\* the box of the bucket and what else the loop reads
BucketBox ==
  [x |-> bucketX, y |-> bucketY, w |-> BucketSize(images[bucket])[1],
   h |-> BucketSize(images[bucket])[2], drop |-> images[raindropImage],
   height |-> height]

\* draw() up to the loop: the calls on the context
DrawHead ==
  <<Op("fillRect", <<0, 0, width, height>>)>>
    \o TextOps(width \div 2, 50, <<>>, textSize)
    \o ImageOps(IsLoaded(images[bucket]), ImageSize(bucket)[1], ImageSize(bucket)[2],
                bucketX, bucketY, <<>>, <<>>, rotation, angleMode)

\* draw(): what it leaves of the array, the score and the context
DrawHook ==
  LET g == IF started THEN DrawLoop(LoopStart(raindrops, playerScore), 1, BucketBox)
                      ELSE LoopStart(raindrops, playerScore)
      ops == DrawHead
               \o (IF started THEN g.ops
                              ELSE TextOps(width \div 2, height \div 2, <<>>, textSize))
      c == [BackgroundOn(ctx, SKYBLUE) EXCEPT !.st.fillStyle = WHITE]
  IN [g |-> g, run |-> Exec(StartRun(c), ops)]

\* A callback of the frame loop that the throttle lets through, in the game: draw(),
\* then mouseMoved() when the pointer has moved, then the frame counter.  The game
\* never calls stopDraw or frameRate.
GameTick ==
  /\ created
  /\ pending > 0
  /\ ~Terminated(running)
  /\ frames < MaxFrames
  /\ \E d \in GameDeltas, spent \in Durations :
       LET timestamp == now + d
           e == timestamp - oldTime
           hook == DrawHook
           g == hook.g
           moves == ~g.threw /\ DispatchesMove(mouseMoved, hooks)
       IN
       /\ ShouldExecute(e, frameInterval)
       /\ now' = timestamp
       /\ pending' = Scheduled(pending - 1)
       /\ elapsed' = e
       /\ oldTime' = NewBaseline(timestamp, e, frameInterval)
       /\ executed' = executed + 1
       /\ drawAt' = timestamp
       /\ raindrops' = g.drops
       /\ playerScore' = g.score
       /\ caught' = caught + g.caught
       /\ missed' = missed + g.missed
       /\ sounds' = sounds + g.sounds
       /\ ctx' = hook.run.c
       /\ painted' = hook.run.out
       /\ bucketX' = IF moves
                       THEN BucketAfterMove(mouseIsPressed, bucketX, mouseX, width,
                                            BucketSize(images[bucket])[1])
                       ELSE bucketX
       /\ frameCount' = IF g.threw THEN frameCount ELSE FrameCountAfter(frameCount)
       /\ deltaTime' = IF g.threw THEN deltaTime ELSE spent
       /\ ticks' = IF g.threw THEN ticks ELSE ticks + 1
       /\ last' = Did("animate", <<timestamp>>,
                       <<"requestAnimationFrame", "draw">>
                         \o (IF moves THEN <<"mouseMoved">> ELSE <<>>)
                         \o (IF g.threw THEN <<"TypeError">>
                                        ELSE <<"frameCount++", "deltaTime">>),
                       <<>>)
  /\ frames' = frames + 1
  /\ UNCHANGED <<frameRate, frameInterval, running, rotation, angleMode, mouseMoved,
                 mouseX, mouseY, mouseIsPressed, created, hooks>>
  /\ UNCHANGED <<textSize, fontName, width, height, assetVars, gridRun, dimg>>
  /\ UNCHANGED <<baseline0, started, bucketY, musicPlaying, firings>>

\* the game from the loading of the page
InitGame == InitState(GameHooks, NoHandler)

NextGame ==
  \/ Setup
  \/ TimerFires
  \/ GameMouseDown
  \/ GameMouseMove
  \/ MouseUp
  \/ GameTick
  \/ ImageOnload

SpecGame == InitGame /\ [][NextGame]_vars

\* The game under way.  Reaching the lower edge takes a drop 140 frames, so the
\* frames are followed from states of a game that has run for 300 frames, one every
\* 33 ms, in which the player pressed the button late, holds it, and nothing was
\* removed yet: up to two drops that have fallen (older drops first), and with them
\* none or eight that the timer made while the host delivered no frame (a hidden
\* page); the bucket still where setup put it, its picture loaded or not.
FramesBefore == 300

FallenDrops == {<<x, y>> : x \in {0, 250}, y \in {430, 600}}

FallenLists ==
  {<<>>} \cup {<<a>> : a \in FallenDrops}
         \cup {l \in {<<a, c>> : a \in FallenDrops, c \in FallenDrops} :
                  l[2][2] <= l[1][2]}

NewDrops(k) == [i \in 1..k |-> <<499, 0 - raindropHeight>>]

DropsOf(l) == [i \in 1..Len(l) |-> [x |-> l[i][1], y |-> l[i][2], id |-> i]]

InitFrame ==
  /\ frameRate = 60
  /\ frameInterval = FrameIntervalOf(60)
  /\ running = TRUE
  /\ rotation = 0
  /\ angleMode = Num(1)
  /\ mouseMoved = FALSE
  /\ frameCount = FramesBefore + 1
  /\ deltaTime = 4
  /\ mouseX = 0
  /\ mouseY = 0
  /\ mouseIsPressed = TRUE
  /\ created = TRUE
  /\ oldTime = FramesBefore * 100
  /\ elapsed = 100
  /\ pending = 1
  /\ now = FramesBefore * 100
  /\ hooks = GameHooks
  /\ last = Did("mousedown", <<0, 0>>, <<"mousePressed">>, <<>>)
  /\ drawAt = FramesBefore * 100
  /\ ticks = FramesBefore
  /\ ctx = [st |-> [DefaultDrawingState EXCEPT !.font = <<32, "Arial">>,
                                              !.textAlign = CENTER,
                                              !.fillStyle = WHITE],
            stack |-> <<>>]
  /\ textSize = 32
  /\ fontName = "Arial"
  /\ width = SetupSize[1]
  /\ height = SetupSize[2]
  /\ \E state \in {"loading", "loaded"} : images = [i \in ImageIds |-> state]
  /\ fonts = [f \in FontIds |-> "none"]
  /\ docFonts = <<>>
  /\ waiting = [f \in FontIds |-> 0]
  /\ gridRun = NoGrid
  /\ dimg = NoDrawImage
  /\ painted = <<>>
  /\ baseline0 = 0
  /\ executed = FramesBefore
  /\ started = TRUE
  /\ \E l \in FallenLists, k \in {0, 8} : raindrops = DropsOf(l \o NewDrops(k))
  /\ playerScore = 0
  /\ bucketX = SetupSize[1] \div 2 - raindropWidth \div 2
  /\ bucketY = SetupSize[2] - raindropHeight
  /\ musicPlaying = TRUE
  /\ caught = 0
  /\ missed = 0
  /\ sounds = 0
  /\ frames = 0
  /\ firings = 0

NextFrame ==
  \/ GameTick
  \/ TimerFires
  \/ GameMouseMove

SpecFrame == InitFrame /\ [][NextFrame]_vars

---------------------------------------------------------------------------
\* Claims about the game

\* a step that is a firing of the spawn timer, a frame of the game
TimerStep == firings' = firings + 1
FrameStep == frames' = frames + 1

\* the identities of the drops of an array, and the drop with a given identity
Ids(s) == {s[i].id : i \in 1..Len(s)}
DropOf(s, id) == s[CHOOSE i \in 1..Len(s) : s[i].id = id]

\* the frame ended in an error thrown by draw()
Threw(l) == \E i \in 1..Len(l.log) : l.log[i] = "TypeError"

\* C22: started is false at first, becomes true only in the press of the pointer
\* and is never false again; while it is false the array of drops stays empty and
\* untouched and the score stays 0, whatever timer firings and frames occur.
C22_NothingBeforeStart ==
  /\ ~started
  /\ [][/\ started' # started => (started' /\ last'.op = "mousedown")
        /\ ~started' => (raindrops' = <<>> /\ playerScore' = 0)
        /\ ~started => (raindrops' = raindrops /\ playerScore' = playerScore)]_vars

\* the timer has fired and a frame was drawn with the game not started
C22_Witness ==
  /\ ~started
  /\ firings > 0
  /\ last.op = "animate"
  /\ frames = MaxFrames
  /\ mouseMoved

\* C23: a firing of the timer in a started game appends exactly one drop, at
\* y = -100 and with 0 <= x <= width - raindropWidth, if fewer than 10 drops are
\* live, and changes nothing otherwise; the array never holds more than 10 drops.
C23_SpawnsBelowCap ==
  [][/\ Len(raindrops') <= maxRaindrops
     /\ (TimerStep /\ started) =>
          IF Len(raindrops) < 10
            THEN /\ Len(raindrops') = Len(raindrops) + 1
                 /\ SubSeq(raindrops', 1, Len(raindrops)) = raindrops
                 /\ raindrops'[Len(raindrops')].y = -100
                 /\ raindrops'[Len(raindrops')].x >= 0
                 /\ raindrops'[Len(raindrops')].x <= width - raindropWidth
            ELSE raindrops' = raindrops]_vars

\* after a frame, the timer fired with 10 drops live and made none
C23_Witness ==
  /\ started
  /\ frames > 0
  /\ Len(raindrops) = 10
  /\ last.op = "setInterval"
  /\ last.log = <<>>

\* C24: in a frame of the started game every drop that is live before and after
\* the frame has fallen by exactly 5.
C24_EveryDropFallsOnce ==
  [][(FrameStep /\ started) =>
       \A id \in Ids(raindrops) \cap Ids(raindrops') :
         DropOf(raindrops', id).y = DropOf(raindrops, id).y + fallStep]_vars

\* C25: a frame in which a drop is removed for passing the lower edge ends without
\* an error; each such removal lowers the score by one, and when no drop reached
\* the bucket the drops removed are those that passed the edge with their move.
C25_BottomRemovalCompletes ==
  [][(FrameStep /\ started /\ missed' > missed) =>
       /\ ~Threw(last')
       /\ playerScore' = playerScore + (caught' - caught) - (missed' - missed)
       /\ caught' = caught =>
            \A id \in Ids(raindrops) \ Ids(raindrops') :
              DropOf(raindrops, id).y + fallStep > height]_vars

\* C26: when draw() ends, no live drop's box (x, y, raindropWidth,
\* raindropHeight - 30) overlaps the box of the bucket; the drop sound is played
\* once for each drop removed for reaching the bucket.
C26_NoDropLeftInBucket ==
  [][(FrameStep /\ started) =>
       /\ \A j \in 1..Len(raindrops') :
            ~RectCollisionOf(raindrops'[j].x, raindrops'[j].y, raindropWidth,
                             raindropHeight - 30, bucketX, bucketY,
                             BucketSize(images[bucket])[1],
                             BucketSize(images[bucket])[2])
       /\ sounds' - sounds = caught' - caught]_vars

\* C29: the score is the number of drops removed for reaching the bucket minus the
\* number removed for passing the lower edge; the drops that leave the array in a
\* step are as many as the two counts grow by, the score changes by their
\* difference, and outside a frame no drop leaves and the score stays.
C29_ScoreCountsRemovals ==
  /\ [](playerScore = caught - missed)
  /\ [][LET gone == Cardinality(Ids(raindrops) \ Ids(raindrops'))
        IN /\ caught' >= caught
           /\ missed' >= missed
           /\ gone = (caught' - caught) + (missed' - missed)
           /\ playerScore' - playerScore = (caught' - caught) - (missed' - missed)
           /\ ~FrameStep => (gone = 0 /\ playerScore' = playerScore)]_vars

\* a drop was removed for passing the edge, then another for reaching the bucket
C29_Witness ==
  /\ caught > 0
  /\ missed > 0
  /\ playerScore = 0
  /\ sounds = caught
  /\ last.op = "animate"

=============================================================================
